---- MODULE Spec2Model ----
(***************************************************************************)
(* Movie revenue predictor service (project_components/code/app.py).       *)
(*                                                                         *)
(* Four specifications over one set of variables:                          *)
(*   Spec        the service on its event loop: every handler is one step  *)
(*               (the handlers are async functions without a suspension    *)
(*               point), over the module cache and the artifact files;     *)
(*   SpecThreads load_models called from several threads, one step per     *)
(*               statement that touches the cache;                         *)
(*   SpecBuild   the body of predict up to the two scaler calls, one step  *)
(*               per loop iteration;                                       *)
(*   SpecCompose predict and batch_predict of a warm service, for every    *)
(*               output of the two estimators.                             *)
(*                                                                         *)
(* Numbers: every float of the program is kept as a whole number of        *)
(* tenths (6.0 is 60, 100.0 is 1000); the value sets are chosen so that    *)
(* every product and quotient the code computes is exact in tenths.        *)
(***************************************************************************)
EXTENDS Integers, Sequences, FiniteSets, TLC

VARIABLES
    files,        \* names of the artifact files present in MODEL_DIR
    features,     \* content of the two feature-column files: [reg, clf]
    df,           \* content of 04_engineered_features.csv: column -> cells
    est,          \* behaviour of the pickled scalers and estimators
    cache,        \* _models_cache: key -> loaded artifact
    opens,        \* per artifact: how many times its file was read
    phase,        \* "boot" before the first event, then "serving"
    req,          \* the request being handled (or the last one handled)
    resp,         \* the response to it
    ret,          \* outcome of the last load_models call of the event loop
    tpc, tidx, tret,   \* per thread: position in load_models, next artifact, result
    pc, i,        \* predict body: position and loop index
    loc,          \* predict body: the locals of lines 178-197
    X_reg_dict, X_reg, X_clf_dict, X_clf

vars == <<files, features, df, est, cache, opens, phase, req, resp, ret,
          tpc, tidx, tret, pc, i, loc, X_reg_dict, X_reg, X_clf_dict, X_clf>>

-----------------------------------------------------------------------------
(* Python values *)

None == <<>>
Some(v) == <<v>>
IsNone(x) == Len(x) = 0
Val(x) == x[1]

\* a cell of a feature vector: a number (in tenths), NaN, or a non-numeric
\* object (a list or a string passed through verbatim)
Num(v) == [kind |-> "num", v |-> v]
NaN == [kind |-> "nan", v |-> 0]
Obj == [kind |-> "obj", v |-> 0]

EmptyDict == [n \in {} |-> NaN]
Put(d, k, v) == [n \in (DOMAIN d) \cup {k} |-> IF n = k THEN v ELSE d[n]]

-----------------------------------------------------------------------------
(* MovieFeatures: the request schema *)

RawFields == {"budget", "runtime", "genres", "cast_count", "director_popularity",
              "release_month", "release_day", "original_language",
              "vote_average", "vote_count"}
IntFields == {"release_month", "release_day"}
ObjFields == {"genres", "original_language"}

\* at most MaxSupplied fields of a request carry a value
MaxSupplied == 2

Supplied(r) == Cardinality({f \in RawFields : ~IsNone(r[f])})

AllRecords ==
    [budget : {None, Some(0), Some(1000), Some(-10)},
     runtime : {None, Some(0), Some(1200)},
     genres : {None, Some(<<>>), Some(<<"Drama">>), Some(<<"Action", "Adventure">>)},
     cast_count : {None, Some(0)},
     director_popularity : {None},
     release_month : {None} \cup {Some(m) : m \in 0..12},
     release_day : {None},
     original_language : {None},
     vote_average : {None, Some(0), Some(50)},
     vote_count : {None, Some(0), Some(500)}]

Records == {r \in AllRecords : Supplied(r) <= MaxSupplied}

EmptyRecord == [f \in RawFields |-> None]

-----------------------------------------------------------------------------
(* The reference dataset 04_engineered_features.csv: numeric columns, each a
   sequence of cells, a cell None where the CSV has no value *)

DFTypical ==
    [c \in {"revenue", "budget", "id", "release_quarter", "is_summer_release",
            "popularity", "vote_average", "log_revenue"} |->
        CASE c = "revenue" -> <<Some(20), Some(40), None>>
          [] c = "budget" -> <<Some(400), Some(200), Some(600)>>
          [] c = "id" -> <<Some(20), None, None>>
          [] c = "release_quarter" -> <<Some(10), Some(20), Some(40)>>
          [] c = "is_summer_release" -> <<Some(0), Some(0), Some(10)>>
          [] c = "popularity" -> <<Some(40), Some(20), None>>
          [] c = "vote_average" -> <<Some(60), Some(80), Some(80)>>
          [] c = "log_revenue" -> <<Some(20), Some(20), Some(20)>>]

\* the same table with three columns that hold no value at all
DFSparse ==
    [c \in DOMAIN DFTypical |->
        IF c \in {"id", "revenue", "is_summer_release"}
        THEN <<None, None, None>> ELSE DFTypical[c]]

\* the header line only
DFEmpty == [c \in DOMAIN DFTypical |-> <<>>]

\* a table without the label column
DFNoRevenue == [c \in (DOMAIN DFTypical) \ {"revenue"} |-> DFTypical[c]]

Datasets == {DFTypical, DFSparse, DFEmpty, DFNoRevenue}

RECURSIVE Insert(_, _)
Insert(s, x) ==
    IF s = <<>> THEN <<x>>
    ELSE IF x <= Head(s) THEN <<x>> \o s
    ELSE <<Head(s)>> \o Insert(Tail(s), x)

RECURSIVE SortedValues(_)
\* the non-null cells of a column, ascending
SortedValues(col) ==
    IF col = <<>> THEN <<>>
    ELSE IF IsNone(Head(col)) THEN SortedValues(Tail(col))
    ELSE Insert(SortedValues(Tail(col)), Val(Head(col)))

\* pandas Series.median(): nulls are skipped; NaN when no value is left
Median(col) ==
    LET s == SortedValues(col)
        n == Len(s)
    IN  IF n = 0 THEN NaN
        ELSE IF n % 2 = 1 THEN Num(s[(n + 1) \div 2])
        ELSE Num((s[n \div 2] + s[n \div 2 + 1]) \div 2)

\* np.log1p on tenths, rounded to the nearest tenth: ln(1 + x/10) * 10
Log1p(x) ==
    IF x.kind = "nan" THEN NaN
    ELSE CASE x.v = 0 -> Num(0)
           [] x.v = 10 -> Num(7)
           [] x.v = 20 -> Num(11)
           [] x.v = 30 -> Num(14)
           [] x.v = 40 -> Num(16)

-----------------------------------------------------------------------------
(* The two feature-column files *)

\* names shared by the two lists, and an engineered name (is_summer_release)
\* that only the classification list holds
ListsShared ==
    [reg |-> <<"budget", "release_quarter", "popularity", "id", "runtime">>,
     clf |-> <<"popularity", "is_summer_release", "budget", "id">>]

\* the training label among the regression features
ListsLabel ==
    [reg |-> <<"log_revenue", "genre_count", "vote_count", "release_month",
               "is_multi_genre">>,
     clf |-> <<"genre_count", "vote_average", "runtime">>]

\* every engineered name in the regression list
ListsEngineered ==
    [reg |-> <<"release_year", "release_quarter", "is_summer_release",
               "is_holiday_season", "genre_count", "is_multi_genre",
               "genre_budget_interaction", "popularity", "vote_average">>,
     clf |-> <<"is_holiday_season", "release_year", "genre_budget_interaction",
               "release_quarter">>]

FeatureLists == {ListsShared, ListsLabel, ListsEngineered}

-----------------------------------------------------------------------------
(* predict, lines 177-197: raw inputs and engineered features *)

\* OrDefault with a null field read as 0
OrDefaultZero(x, d) == IF IsNone(x) THEN 0 ELSE IF Val(x) = 0 THEN d ELSE Val(x)

\* input_dict.get(f, d) or d
OrDefault(x, d) == IF IsNone(x) THEN d ELSE IF Val(x) = 0 THEN d ELSE Val(x)

\* input_dict.get('genres', []) or []
GenresOrEmpty(x) == IF IsNone(x) THEN <<>> ELSE Val(x)

\* Locals with the quarter taken from the month itself, not from month - 1
LocalsQuarterOff(r) ==
    LET budget == OrDefault(r.budget, 0)
        runtime == OrDefault(r.runtime, 1000)
        cast_count == OrDefault(r.cast_count, 100)
        release_month == OrDefault(r.release_month, 6)
        vote_average == OrDefault(r.vote_average, 60)
        vote_count == OrDefault(r.vote_count, 1000)
        genres == GenresOrEmpty(r.genres)
        genre_count == IF Len(genres) > 0 THEN Len(genres) ELSE 1
    IN  [budget |-> budget, runtime |-> runtime, cast_count |-> cast_count,
         release_month |-> release_month, vote_average |-> vote_average,
         vote_count |-> vote_count, genres |-> genres,
         release_year |-> 2024,
         release_quarter |-> release_month \div 3 + 1,
         is_summer_release |-> IF release_month \in {6, 7, 8} THEN 1 ELSE 0,
         is_holiday_season |-> IF release_month \in {11, 12} THEN 1 ELSE 0,
         genre_count |-> genre_count,
         is_multi_genre |-> IF genre_count > 1 THEN 1 ELSE 0]

\* Locals with genre_count taken as len(genres) even for an empty list
LocalsGenreLen(r) ==
    LET budget == OrDefault(r.budget, 0)
        runtime == OrDefault(r.runtime, 1000)
        cast_count == OrDefault(r.cast_count, 100)
        release_month == OrDefault(r.release_month, 6)
        vote_average == OrDefault(r.vote_average, 60)
        vote_count == OrDefault(r.vote_count, 1000)
        genres == GenresOrEmpty(r.genres)
        genre_count == Len(genres)
    IN  [budget |-> budget, runtime |-> runtime, cast_count |-> cast_count,
         release_month |-> release_month, vote_average |-> vote_average,
         vote_count |-> vote_count, genres |-> genres,
         release_year |-> 2024,
         release_quarter |-> (release_month - 1) \div 3 + 1,
         is_summer_release |-> IF release_month \in {6, 7, 8} THEN 1 ELSE 0,
         is_holiday_season |-> IF release_month \in {11, 12} THEN 1 ELSE 0,
         genre_count |-> genre_count,
         is_multi_genre |-> IF genre_count > 1 THEN 1 ELSE 0]

Locals(r) ==
    LET budget == OrDefault(r.budget, 0)
        runtime == OrDefault(r.runtime, 1000)
        cast_count == OrDefault(r.cast_count, 100)
        release_month == OrDefault(r.release_month, 6)
        vote_average == OrDefault(r.vote_average, 60)
        vote_count == OrDefault(r.vote_count, 1000)
        genres == GenresOrEmpty(r.genres)
        genre_count == IF Len(genres) > 0 THEN Len(genres) ELSE 1
    IN  [budget |-> budget, runtime |-> runtime, cast_count |-> cast_count,
         release_month |-> release_month, vote_average |-> vote_average,
         vote_count |-> vote_count, genres |-> genres,
         release_year |-> 2024,
         release_quarter |-> (release_month - 1) \div 3 + 1,
         is_summer_release |-> IF release_month \in {6, 7, 8} THEN 1 ELSE 0,
         is_holiday_season |-> IF release_month \in {11, 12} THEN 1 ELSE 0,
         genre_count |-> genre_count,
         is_multi_genre |-> IF genre_count > 1 THEN 1 ELSE 0]

\* the names of the elif chain of lines 217-224
EngineeredNames == {"release_year", "release_quarter", "is_summer_release",
                    "is_holiday_season", "genre_count", "is_multi_genre",
                    "genre_budget_interaction", "popularity"}

\* the value the elif chain of lines 217-224 assigns, in tenths
Derived(feat, l) ==
    CASE feat = "release_year" -> Num(10 * l.release_year)
      [] feat = "release_quarter" -> Num(10 * l.release_quarter)
      [] feat = "is_summer_release" -> Num(10 * l.is_summer_release)
      [] feat = "is_holiday_season" -> Num(10 * l.is_holiday_season)
      [] feat = "genre_count" -> Num(10 * l.genre_count)
      [] feat = "is_multi_genre" -> Num(10 * l.is_multi_genre)
      [] feat = "genre_budget_interaction" -> Num((l.budget * 3) \div 2)
      [] feat = "popularity" -> Num((l.vote_count * l.vote_average) \div 500)

\* input_dict[feat], as it enters a feature vector
Verbatim(feat, r) ==
    IF feat \in ObjFields THEN Obj
    ELSE IF feat \in IntFields THEN Num(10 * Val(r[feat]))
    ELSE Num(Val(r[feat]))

\* feat in input_dict and input_dict[feat] is not None
HasRaw(feat, r) == feat \in RawFields /\ ~IsNone(r[feat])

\* lines 232-235 and 256-259
MedianOrZero(feat, d) == IF feat \in DOMAIN d THEN Median(d[feat]) ELSE Num(0)

\* ResolveReg with the median fallback tried before the engineered names
ResolveRegMedianFirst(feat, r, l, d) ==
    IF HasRaw(feat, r) THEN Verbatim(feat, r)
    ELSE IF feat \in DOMAIN d THEN Median(d[feat])
    ELSE IF feat \in EngineeredNames THEN Derived(feat, l)
    ELSE IF feat = "log_revenue" THEN Log1p(Median(d["revenue"]))
    ELSE Num(0)

\* one iteration of the loop of lines 211-235
ResolveReg(feat, r, l, d) ==
    IF HasRaw(feat, r) THEN Verbatim(feat, r)
    ELSE IF feat \in EngineeredNames THEN Derived(feat, l)
    ELSE IF feat = "log_revenue" THEN Log1p(Median(d["revenue"]))
    ELSE MedianOrZero(feat, d)

\* ResolveClf without the reuse of the regression vector's values
ResolveClfNoReuse(feat, xreg, r, d) ==
    IF HasRaw(feat, r) THEN Verbatim(feat, r)
    ELSE MedianOrZero(feat, d)

\* one iteration of the loop of lines 250-259
ResolveClf(feat, xreg, r, d) ==
    IF feat \in DOMAIN xreg THEN xreg[feat]
    ELSE IF HasRaw(feat, r) THEN Verbatim(feat, r)
    ELSE MedianOrZero(feat, d)

\* pd.DataFrame([dict])[columns]: the columns named, in the order named
Frame(dict, columns) ==
    [k \in 1..Len(columns) |-> [name |-> columns[k], value |-> dict[columns[k]]]]

RECURSIVE RegDict(_, _, _, _, _)
\* X_reg_dict after the first n iterations of the loop of lines 211-235
RegDict(n, fs, r, l, d) ==
    IF n = 0 THEN EmptyDict
    ELSE Put(RegDict(n - 1, fs, r, l, d), fs[n], ResolveReg(fs[n], r, l, d))

RECURSIVE ClfDict(_, _, _, _, _)
\* X_clf_dict after the first n iterations of the loop of lines 250-259
ClfDict(n, fs, xreg, r, d) ==
    IF n = 0 THEN EmptyDict
    ELSE Put(ClfDict(n - 1, fs, xreg, r, d), fs[n], ResolveClf(fs[n], xreg, r, d))

-----------------------------------------------------------------------------
(* The pickled scalers and estimators: external collaborators, each a fixed
   function; here constant ones, told apart by what they return *)

\* np.expm1 of the regression output, in tenths (expm1 is above -1)
ExpM1Outs == {-5, 0, 50, 5000}

\* clf_model.predict(...)[0]: a class index, or a label string
Index(n) == [numeric |-> TRUE, v |-> n]
Label == [numeric |-> FALSE, v |-> 0]
ClassOuts == {Index(n) : n \in {0, 1, 2, 3, 7}} \cup {Label}

\* np.max(predict_proba(...)[0]) in hundredths, None when the call raises
ProbaOuts == {None, Some(60), Some(100), Some(101)}

\* the call that raises, if any
FailPoints == {"none", "reg_scaler", "reg_model", "clf_scaler", "clf_model"}

\* the inputs on which that call raises: every vector, or only a vector
\* with a negative cell
FailWhen == {"always", "negative"}

Estimators == [expm1 : ExpM1Outs, cls : ClassOuts, proba : ProbaOuts,
               fails : FailPoints, when : FailWhen]

-----------------------------------------------------------------------------
(* load_models, lines 46-86 *)

LoadOrder == <<"reg_model", "clf_model", "reg_scaler", "clf_scaler",
               "reg_features", "clf_features", "category_defs">>

Artifacts == {LoadOrder[k] : k \in DOMAIN LoadOrder}

\* pickle.load of the file behind a cache key
Artifact(key) ==
    CASE key = "reg_features" -> features.reg
      [] key = "clf_features" -> features.clf
      [] OTHER -> <<key>>

EmptyCache == [k \in {} |-> <<>>]

\* lines 55-56 (and 59-60, ..., 78-79): one file read into the cache
StoreArtifact(c, key) ==
    [k \in (DOMAIN c) \cup {key} |-> IF k = key THEN Artifact(key) ELSE c[k]]

RECURSIVE LoadFrom(_, _, _)
\* lines 53-86 from the k-th file on: FileNotFoundError ends the call
LoadFrom(k, c, present) ==
    IF k > Len(LoadOrder) THEN [cache |-> c, raised |-> FALSE, read |-> k - 1]
    ELSE IF LoadOrder[k] \notin present
         THEN [cache |-> c, raised |-> TRUE, read |-> k - 1]
         ELSE LoadFrom(k + 1, StoreArtifact(c, LoadOrder[k]), present)

\* one call of load_models: the cache after it, whether it raised, and how
\* many files it read
LoadModels(c, present) ==
    IF DOMAIN c # {} THEN [cache |-> c, raised |-> FALSE, read |-> 0]
    ELSE LoadFrom(1, c, present)

\* the file reads of a call added to the counters
Opened(o, lm) == [k \in DOMAIN LoadOrder |-> o[k] + (IF k <= lm.read THEN 1 ELSE 0)]

NoCall == [state |-> "none", bundle |-> EmptyCache]
Outcome(lm) == [state |-> IF lm.raised THEN "raised" ELSE "returned",
                bundle |-> IF lm.raised THEN EmptyCache ELSE lm.cache]

-----------------------------------------------------------------------------
(* predict, lines 162-312 *)

\* CategoryMap without the default of category_map.get
CategoryMapNoDefault(n) ==
    CASE n = 0 -> "Flop"
      [] n = 1 -> "Average"
      [] n = 2 -> "Hit"
      [] n = 3 -> "Blockbuster"
      [] OTHER -> "Unknown"

\* lines 267-268: category_map.get(int(category_pred_numeric), 'Average')
CategoryMap(n) ==
    CASE n = 0 -> "Flop" [] n = 1 -> "Average" [] n = 2 -> "Hit"
      [] n = 3 -> "Blockbuster" [] OTHER -> "Average"

\* lines 286-293: the template chosen, with the formatted revenue in it
Explanation(category, formatted) ==
    [template |-> CASE category = "Blockbuster" -> "Strong performer"
                    [] category = "Hit" -> "Solid performer"
                    [] category = "Average" -> "Moderate performer"
                    [] OTHER -> "Predicted revenue",
     revenue |-> formatted]

\* f"${predicted_revenue:,.2f}": the amount, two decimals (tenths are exact)
Formatted(revenue) == [sign |-> "$", amount |-> revenue]

Failed(detail) ==
    [status |-> 500, detail |-> detail, predicted_revenue |-> 0,
     formatted |-> Formatted(0), category |-> "", confidence |-> 0,
     explanation |-> Explanation("", Formatted(0)), features_used |-> 0]

\* lines 276-281: the model revenue, or the heuristic in its place
Plausible(revenue, budget, vote_average) ==
    IF 10 * revenue < budget
    THEN (budget * (120 + vote_average)) \div 100
    ELSE revenue

\* Confidence with 1.0 as the fallback of line 274
ConfidenceFallbackOne(proba) ==
    LET confidence == IF IsNone(proba) THEN 100 ELSE Val(proba)
    IN  IF confidence < 100 THEN confidence ELSE 100

\* Confidence without the min(confidence, 1.0) of line 301
ConfidenceUnclamped(proba) == IF IsNone(proba) THEN 85 ELSE Val(proba)

\* lines 270-274 and 301
Confidence(proba) ==
    LET confidence == IF IsNone(proba) THEN 85 ELSE Val(proba)
    IN  IF confidence < 100 THEN confidence ELSE 100

\* the keys predict reads from the bundle
PredictKeys == {"reg_features", "reg_scaler", "reg_model",
                "clf_features", "clf_scaler", "clf_model"}

\* PredictBody with a raising scaler or estimator call answered all the same
PredictBodyRecovering(models, r, d, e) ==
    IF "revenue" \notin DOMAIN d THEN Failed("Prediction failed")
    ELSE IF ~(PredictKeys \subseteq DOMAIN models) THEN Failed("Prediction failed")
    ELSE IF ~e.cls.numeric THEN Failed("Prediction failed")
    ELSE
        LET l == Locals(r)
            category == CategoryMap(e.cls.v)
            revenue == Plausible(e.expm1, l.budget, l.vote_average)
        IN  [status |-> 200, detail |-> "",
             predicted_revenue |-> revenue,
             formatted |-> Formatted(revenue),
             category |-> category,
             confidence |-> Confidence(e.proba),
             explanation |-> Explanation(category, Formatted(revenue)),
             features_used |-> Len(models["reg_features"])]

\* lines 211-261: the two frames built for the record r
Vectors(models, r, d) ==
    LET regf == models["reg_features"]
        clff == models["clf_features"]
        xregd == RegDict(Len(regf), regf, r, Locals(r), d)
        xclfd == ClfDict(Len(clff), clff, xregd, r, d)
    IN  [reg |-> Frame(xregd, regf), clf |-> Frame(xclfd, clff)]

Negative(frame) ==
    \E k \in DOMAIN frame : frame[k].value.kind = "num" /\ frame[k].value.v < 0

\* lines 241-242 and 262-263: one of the four calls raises on its frame
Raises(e, models, r, d) ==
    /\ e.fails # "none"
    /\ \/ e.when = "always"
       \/ Negative(IF e.fails \in {"reg_scaler", "reg_model"}
                   THEN Vectors(models, r, d).reg
                   ELSE Vectors(models, r, d).clf)

\* PredictBody with the two texts rendered before the correction of
\* lines 278-281
PredictBodyStaleText(models, r, d, e) ==
    IF "revenue" \notin DOMAIN d THEN Failed("Prediction failed")
    ELSE IF ~(PredictKeys \subseteq DOMAIN models) THEN Failed("Prediction failed")
    ELSE IF Raises(e, models, r, d) THEN Failed("Prediction failed")
    ELSE IF ~e.cls.numeric THEN Failed("Prediction failed")
    ELSE
        LET l == Locals(r)
            category == CategoryMap(e.cls.v)
            revenue == Plausible(e.expm1, l.budget, l.vote_average)
        IN  [status |-> 200, detail |-> "",
             predicted_revenue |-> revenue,
             formatted |-> Formatted(e.expm1),
             category |-> category,
             confidence |-> Confidence(e.proba),
             explanation |-> Explanation(category, Formatted(e.expm1)),
             features_used |-> Len(models["reg_features"])]

\* the body of predict after load_models returned `models`
PredictBody(models, r, d, e) ==
    IF "revenue" \notin DOMAIN d THEN Failed("Prediction failed")
    ELSE IF ~(PredictKeys \subseteq DOMAIN models) THEN Failed("Prediction failed")
    ELSE IF Raises(e, models, r, d) THEN Failed("Prediction failed")
    ELSE IF ~e.cls.numeric THEN Failed("Prediction failed")
    ELSE
        LET l == Locals(r)
            category == CategoryMap(e.cls.v)
            revenue == Plausible(e.expm1, l.budget, l.vote_average)
        IN  [status |-> 200, detail |-> "",
             predicted_revenue |-> revenue,
             formatted |-> Formatted(revenue),
             category |-> category,
             confidence |-> Confidence(e.proba),
             explanation |-> Explanation(category, Formatted(revenue)),
             features_used |-> Len(models["reg_features"])]

\* predict: load_models, then the body; every exception is an HTTP 500
PredictOne(c, r) ==
    LET lm == LoadModels(c, files)
    IN  [lm |-> lm,
         resp |-> IF lm.raised THEN Failed("Prediction failed")
                  ELSE PredictBody(lm.cache, r, df, est)]

-----------------------------------------------------------------------------
(* The service: requests handled one at a time on the event loop *)

\* at most MaxBatch records in a batch-predict request
MaxBatch == 2

\* the records of a batch: only the budget is supplied
BatchItems == {r \in Records : \A f \in RawFields \ {"budget"} : IsNone(r[f])}

Batches == UNION {[1..n -> BatchItems] : n \in 0..MaxBatch}

Requests ==
    {[op |-> "health", body |-> <<>>], [op |-> "models-info", body |-> <<>>]}
    \cup {[op |-> "predict", body |-> <<r>>] : r \in Records}
    \cup {[op |-> "batch-predict", body |-> b] : b \in Batches}

NoRequest == [op |-> "none", body |-> <<>>]

Response(status, detail, predictions, info) ==
    [status |-> status, detail |-> detail, predictions |-> predictions,
     count |-> Len(predictions), info |-> info]

\* no response yet: the request is being handled
Pending == Response(0, "", <<>>, <<>>)

\* the artifact files: all there, one missing, or none there
FileSets == {Artifacts, {}} \cup {Artifacts \ {a} : a \in Artifacts}

\* the deployments the service is run with
ServiceEstimators ==
    {e \in Estimators : /\ e.expm1 = 50
                        /\ e.proba = None
                        /\ e.cls \in {Index(2), Label}
                        /\ e.fails \in {"none", "clf_model"}
                        /\ e.when = "always"
                        /\ e.cls = Label => e.fails = "none"}

ServiceFeatureLists == {ListsShared}

ServiceDatasets == {DFTypical, DFNoRevenue}

Idle == [t \in {} |-> "idle"]

\* variables of the other two specifications, unused by the service
ServiceFrame ==
    UNCHANGED <<tpc, tidx, tret, pc, i, loc, X_reg_dict, X_reg, X_clf_dict, X_clf>>

Environment == UNCHANGED <<files, features, df, est>>

Init ==
    /\ files \in FileSets
    /\ features \in ServiceFeatureLists
    /\ df \in ServiceDatasets
    /\ est \in ServiceEstimators
    /\ cache = EmptyCache
    /\ opens = [k \in DOMAIN LoadOrder |-> 0]
    /\ phase = "boot"
    /\ req = NoRequest
    /\ resp = Pending
    /\ ret = NoCall
    /\ tpc = Idle /\ tidx = Idle /\ tret = Idle
    /\ pc = "idle" /\ i = 0 /\ loc = Locals(EmptyRecord)
    /\ X_reg_dict = EmptyDict /\ X_reg = <<>>
    /\ X_clf_dict = EmptyDict /\ X_clf = <<>>

\* startup_event, lines 126-133: the load error is logged and dropped
Startup ==
    /\ phase = "boot"
    /\ LET lm == LoadModels(cache, files)
       IN  /\ cache' = lm.cache
           /\ opens' = Opened(opens, lm)
           /\ ret' = Outcome(lm)
    /\ phase' = "serving"
    /\ UNCHANGED <<req, resp>>
    /\ Environment /\ ServiceFrame

\* lines 382-384: under the Lambda adapter (lifespan off) no startup event runs
ColdStart ==
    /\ phase = "boot"
    /\ phase' = "serving"
    /\ UNCHANGED <<cache, opens, ret, req, resp>>
    /\ Environment /\ ServiceFrame

\* the transport layer hands the next request to its handler
Receive ==
    /\ phase = "serving"
    /\ req.op = "none"
    /\ req' \in Requests
    /\ resp' = Pending
    /\ UNCHANGED <<cache, opens, ret, phase>>
    /\ Environment /\ ServiceFrame

\* the transport layer sends the response; the event loop is free again
Reply ==
    /\ phase = "serving"
    /\ resp # Pending
    /\ req' = NoRequest
    /\ resp' = Pending
    /\ UNCHANGED <<cache, opens, ret, phase>>
    /\ Environment /\ ServiceFrame

Handling(op) == phase = "serving" /\ req.op = op /\ resp = Pending

\* health_check, lines 136-143
Health ==
    /\ Handling("health")
    /\ resp' = Response(200, "healthy", <<>>, <<>>)
    /\ UNCHANGED <<cache, opens, ret, phase, req>>
    /\ Environment /\ ServiceFrame

\* the keys models_info reads with [...]; category_defs is read with .get
InfoKeys == {"reg_model", "clf_model", "reg_features", "clf_features"}

\* models_info, lines 146-159
ModelsInfo ==
    /\ Handling("models-info")
    /\ LET lm == LoadModels(cache, files)
       IN  /\ cache' = lm.cache
           /\ opens' = Opened(opens, lm)
           /\ ret' = Outcome(lm)
           /\ resp' = IF lm.raised THEN Response(500, "Failed to load models", <<>>, <<>>)
                      ELSE IF ~(InfoKeys \subseteq DOMAIN lm.cache)
                           THEN Response(500, "KeyError", <<>>, <<>>)
                           ELSE Response(200, "", <<>>,
                                         <<Len(lm.cache["reg_features"]),
                                           Len(lm.cache["clf_features"])>>)
    /\ UNCHANGED <<phase, req>>
    /\ Environment /\ ServiceFrame

\* predict, lines 162-312
Predict ==
    /\ Handling("predict")
    /\ LET one == PredictOne(cache, req.body[1])
       IN  /\ cache' = one.lm.cache
           /\ opens' = Opened(opens, one.lm)
           /\ ret' = Outcome(one.lm)
           /\ resp' = IF one.resp.status = 200
                      THEN Response(200, "", <<one.resp>>, <<>>)
                      ELSE Response(500, one.resp.detail, <<>>, <<>>)
    /\ UNCHANGED <<phase, req>>
    /\ Environment /\ ServiceFrame

RECURSIVE BatchFromSkipping(_, _, _)
\* BatchFrom with a failed record left out and the loop going on
BatchFromSkipping(k, rs, st) ==
    IF k > Len(rs) THEN st
    ELSE LET one == PredictOne(st.cache, rs[k])
             next == [cache |-> one.lm.cache,
                      opens |-> Opened(st.opens, one.lm),
                      ret |-> Outcome(one.lm),
                      failed |-> FALSE,
                      predictions |-> IF one.resp.status = 200
                                      THEN Append(st.predictions, one.resp)
                                      ELSE st.predictions]
         IN  BatchFromSkipping(k + 1, rs, next)

RECURSIVE BatchFromPrepending(_, _, _)
\* BatchFrom with each prediction put at the head of the list
BatchFromPrepending(k, rs, st) ==
    IF k > Len(rs) THEN st
    ELSE LET one == PredictOne(st.cache, rs[k])
             next == [cache |-> one.lm.cache,
                      opens |-> Opened(st.opens, one.lm),
                      ret |-> Outcome(one.lm),
                      failed |-> one.resp.status # 200,
                      predictions |-> IF one.resp.status = 200
                                      THEN <<one.resp>> \o st.predictions
                                      ELSE st.predictions]
         IN  IF next.failed THEN next ELSE BatchFromPrepending(k + 1, rs, next)

RECURSIVE BatchFrom(_, _, _)
\* the loop of lines 332-335 from the k-th record on; st carries the cache,
\* the read counters, the last load_models outcome and the predictions so far
BatchFrom(k, rs, st) ==
    IF k > Len(rs) THEN st
    ELSE LET one == PredictOne(st.cache, rs[k])
             next == [cache |-> one.lm.cache,
                      opens |-> Opened(st.opens, one.lm),
                      ret |-> Outcome(one.lm),
                      failed |-> one.resp.status # 200,
                      predictions |-> IF one.resp.status = 200
                                      THEN Append(st.predictions, one.resp)
                                      ELSE st.predictions]
         IN  IF next.failed THEN next ELSE BatchFrom(k + 1, rs, next)

\* batch_predict, lines 319-341: the first failed record fails the request
BatchPredict ==
    /\ Handling("batch-predict")
    /\ LET st == BatchFrom(1, req.body,
                           [cache |-> cache, opens |-> opens, ret |-> ret,
                            failed |-> FALSE, predictions |-> <<>>])
       IN  /\ cache' = st.cache
           /\ opens' = st.opens
           /\ ret' = st.ret
           /\ resp' = IF st.failed
                      THEN Response(500, "Batch prediction failed", <<>>, <<>>)
                      ELSE Response(200, "", st.predictions, <<>>)
    /\ UNCHANGED <<phase, req>>
    /\ Environment /\ ServiceFrame

Next ==
    \/ Startup
    \/ ColdStart
    \/ Receive
    \/ Reply
    \/ Health
    \/ ModelsInfo
    \/ Predict
    \/ BatchPredict

Spec == Init /\ [][Next]_vars

-----------------------------------------------------------------------------
(* load_models called from several threads at once.  One step per statement
   that reads or writes _models_cache; nothing in lines 46-86 takes a lock. *)

\* the number of threads calling load_models
NCallers == 2

Callers == 1..NCallers

ThreadFrame ==
    UNCHANGED <<phase, req, resp, ret, pc, i, loc, X_reg_dict, X_reg, X_clf_dict, X_clf>>

InitThreads ==
    /\ files \in FileSets
    /\ features = ListsShared
    /\ df = DFTypical
    /\ est \in {e \in ServiceEstimators : e.fails = "none" /\ e.cls = Index(2)}
    /\ cache = EmptyCache
    /\ opens = [k \in DOMAIN LoadOrder |-> 0]
    /\ phase = "serving"
    /\ req = NoRequest
    /\ resp = Pending
    /\ ret = NoCall
    /\ tpc = [t \in Callers |-> "idle"]
    /\ tidx = [t \in Callers |-> 0]
    /\ tret = [t \in Callers |-> EmptyCache]
    /\ pc = "idle" /\ i = 0 /\ loc = Locals(EmptyRecord)
    /\ X_reg_dict = EmptyDict /\ X_reg = <<>>
    /\ X_clf_dict = EmptyDict /\ X_clf = <<>>

\* a thread enters load_models (a first call, or one more call)
T_Call(t) ==
    /\ tpc[t] \in {"idle", "returned", "raised"}
    /\ tpc' = [tpc EXCEPT ![t] = "check"]
    /\ tret' = [tret EXCEPT ![t] = EmptyCache]
    /\ UNCHANGED <<cache, opens, tidx>>
    /\ Environment /\ ThreadFrame

\* lines 50-51: a non-empty cache is handed back as it is
T_Check(t) ==
    /\ tpc[t] = "check"
    /\ IF DOMAIN cache # {}
       THEN /\ tpc' = [tpc EXCEPT ![t] = "returned"]
            /\ tret' = [tret EXCEPT ![t] = cache]
            /\ UNCHANGED tidx
       ELSE /\ tpc' = [tpc EXCEPT ![t] = "load"]
            /\ tidx' = [tidx EXCEPT ![t] = 1]
            /\ UNCHANGED tret
    /\ UNCHANGED <<cache, opens>>
    /\ Environment /\ ThreadFrame

\* lines 55-56, ..., 78-79: the next file is read and stored in the cache
T_Load(t) ==
    /\ tpc[t] = "load"
    /\ tidx[t] <= Len(LoadOrder)
    /\ LoadOrder[tidx[t]] \in files
    /\ cache' = StoreArtifact(cache, LoadOrder[tidx[t]])
    /\ opens' = [opens EXCEPT ![tidx[t]] = @ + 1]
    /\ tidx' = [tidx EXCEPT ![t] = @ + 1]
    /\ UNCHANGED <<tpc, tret>>
    /\ Environment /\ ThreadFrame

\* lines 84-86: the next file is missing
T_Raise(t) ==
    /\ tpc[t] = "load"
    /\ tidx[t] <= Len(LoadOrder)
    /\ LoadOrder[tidx[t]] \notin files
    /\ tpc' = [tpc EXCEPT ![t] = "raised"]
    /\ UNCHANGED <<cache, opens, tidx, tret>>
    /\ Environment /\ ThreadFrame

\* line 82
T_Return(t) ==
    /\ tpc[t] = "load"
    /\ tidx[t] > Len(LoadOrder)
    /\ tpc' = [tpc EXCEPT ![t] = "returned"]
    /\ tret' = [tret EXCEPT ![t] = cache]
    /\ UNCHANGED <<cache, opens, tidx>>
    /\ Environment /\ ThreadFrame

NextThreads ==
    \E t \in Callers :
        \/ T_Call(t)
        \/ T_Check(t)
        \/ T_Load(t)
        \/ T_Raise(t)
        \/ T_Return(t)

SpecThreads == InitThreads /\ [][NextThreads]_vars

-----------------------------------------------------------------------------
(* The body of predict up to the second scaler call, one loop iteration per
   step, on a loaded cache *)

InitBuild ==
    /\ files = Artifacts
    /\ features \in FeatureLists
    /\ df \in Datasets
    /\ est \in {e \in ServiceEstimators : e.fails = "none" /\ e.cls = Index(2)}
    /\ cache = LoadModels(EmptyCache, Artifacts).cache
    /\ opens = [k \in DOMAIN LoadOrder |-> 1]
    /\ phase = "serving"
    /\ req \in {[op |-> "predict", body |-> <<r>>] : r \in Records}
    /\ resp = Pending
    /\ ret = NoCall
    /\ tpc = Idle /\ tidx = Idle /\ tret = Idle
    /\ pc = "start" /\ i = 0 /\ loc = Locals(EmptyRecord)
    /\ X_reg_dict = EmptyDict /\ X_reg = <<>>
    /\ X_clf_dict = EmptyDict /\ X_clf = <<>>

BuildFrame ==
    UNCHANGED <<cache, opens, phase, req, resp, ret, tpc, tidx, tret>>

\* lines 171-209: the bundle, the dataset, the locals, the label median
B_Enter ==
    /\ pc = "start"
    /\ loc' = Locals(req.body[1])
    /\ IF "revenue" \in DOMAIN df
       THEN pc' = "reg" /\ i' = 1
       ELSE pc' = "failed" /\ i' = 0
    /\ UNCHANGED <<X_reg_dict, X_reg, X_clf_dict, X_clf>>
    /\ Environment /\ BuildFrame

\* lines 211-235: one iteration
B_RegFeature ==
    /\ pc = "reg"
    /\ i <= Len(cache["reg_features"])
    /\ LET feat == cache["reg_features"][i]
       IN  X_reg_dict' = Put(X_reg_dict, feat, ResolveReg(feat, req.body[1], loc, df))
    /\ i' = i + 1
    /\ UNCHANGED <<pc, loc, X_reg, X_clf_dict, X_clf>>
    /\ Environment /\ BuildFrame

\* lines 238-245: the regression frame goes to the scaler and the estimator
B_RegFrame ==
    /\ pc = "reg"
    /\ i > Len(cache["reg_features"])
    /\ X_reg' = Frame(X_reg_dict, cache["reg_features"])
    /\ pc' = "clf"
    /\ i' = 1
    /\ UNCHANGED <<loc, X_reg_dict, X_clf_dict, X_clf>>
    /\ Environment /\ BuildFrame

\* lines 250-259: one iteration
B_ClfFeature ==
    /\ pc = "clf"
    /\ i <= Len(cache["clf_features"])
    /\ LET feat == cache["clf_features"][i]
       IN  X_clf_dict' = Put(X_clf_dict, feat, ResolveClf(feat, X_reg_dict, req.body[1], df))
    /\ i' = i + 1
    /\ UNCHANGED <<pc, loc, X_reg_dict, X_reg, X_clf>>
    /\ Environment /\ BuildFrame

\* lines 261-263: the classification frame goes to the scaler and the estimator
B_ClfFrame ==
    /\ pc = "clf"
    /\ i > Len(cache["clf_features"])
    /\ X_clf' = Frame(X_clf_dict, cache["clf_features"])
    /\ pc' = "scaled"
    /\ UNCHANGED <<i, loc, X_reg_dict, X_reg, X_clf_dict>>
    /\ Environment /\ BuildFrame

NextBuild ==
    \/ B_Enter
    \/ B_RegFeature
    \/ B_RegFrame
    \/ B_ClfFeature
    \/ B_ClfFrame

SpecBuild == InitBuild /\ [][NextBuild]_vars

-----------------------------------------------------------------------------
(* The result composer: predict and batch_predict of a warm service, for
   every output the two estimators can give *)

\* the records that differ in what the composer reads: budget and vote_average
ComposeRecords ==
    {r \in Records : \A f \in RawFields \ {"budget", "vote_average"} : IsNone(r[f])}

ComposeRequests ==
    {[op |-> "predict", body |-> <<r>>] : r \in ComposeRecords}
    \cup {[op |-> "batch-predict", body |-> b] : b \in Batches}

\* a call that raises on every vector leaves no output to choose; one that
\* raises on some vectors is given one output for the others
ComposeEstimators ==
    {e \in Estimators :
        /\ e.fails = "none" => e.when = "always"
        /\ e.fails # "none" => e.expm1 = 50 /\ e.cls = Index(2) /\ e.proba = None}

\* the service after a startup that loaded every artifact
InitCompose ==
    /\ files = Artifacts
    /\ features = ListsShared
    /\ df = DFTypical
    /\ est \in ComposeEstimators
    /\ cache = LoadModels(EmptyCache, Artifacts).cache
    /\ opens = [k \in DOMAIN LoadOrder |-> 1]
    /\ phase = "serving"
    /\ req = NoRequest
    /\ resp = Pending
    /\ ret = Outcome(LoadModels(EmptyCache, Artifacts))
    /\ tpc = Idle /\ tidx = Idle /\ tret = Idle
    /\ pc = "idle" /\ i = 0 /\ loc = Locals(EmptyRecord)
    /\ X_reg_dict = EmptyDict /\ X_reg = <<>>
    /\ X_clf_dict = EmptyDict /\ X_clf = <<>>

\* the transport layer hands a predict or batch-predict request to its handler
C_Receive ==
    /\ phase = "serving"
    /\ req.op = "none"
    /\ req' \in ComposeRequests
    /\ resp' = Pending
    /\ UNCHANGED <<cache, opens, ret, phase>>
    /\ Environment /\ ServiceFrame

NextCompose ==
    \/ C_Receive
    \/ Predict
    \/ BatchPredict
    \/ Reply

SpecCompose == InitCompose /\ [][NextCompose]_vars

-----------------------------------------------------------------------------
(* Claims about the artifact cache, under Spec *)

Full(bundle) == DOMAIN bundle = Artifacts

\* C1: no partial bundle.  After a load_models call that raised, the cache
\* holds no artifact, and a call that returns hands back all seven entries.
C1_NoPartialBundle ==
    /\ ret.state = "raised" => DOMAIN cache = {}
    /\ ret.state = "returned" => Full(ret.bundle)

\* C2: no partial-capability mode.  While an artifact file is missing, no
\* /predict request is answered with a prediction.
C2_NoPartialCapability ==
    (files # Artifacts /\ req.op = "predict" /\ resp # Pending) => resp.status # 200

\* C3: memoization.  Once load_models has returned, every later step leaves
\* the cache and the read counters as they are, and every later call returns
\* that same bundle, which has all seven entries.
C3_Memoized ==
    [][ret.state = "returned" =>
          /\ cache' = cache
          /\ opens' = opens
          /\ ret'.state = "returned"
          /\ ret'.bundle = ret.bundle
          /\ Full(ret'.bundle)]_vars

-----------------------------------------------------------------------------
(* Claims about concurrent first access, under SpecThreads *)

\* C4: single initialization.  Whatever the interleaving of the callers, each
\* artifact file is read, and its cache entry written, at most once.
C4_SingleInitialization == \A k \in DOMAIN LoadOrder : opens[k] <= 1

\* C5: no partial state under concurrency.  With every file present, a caller
\* that returns while another one is still loading holds all seven entries.
C5_NoPartialHandOver ==
    files = Artifacts =>
        \A t, u \in Callers :
            (tpc[t] = "returned" /\ tpc[u] = "load") => Full(tret[t])

-----------------------------------------------------------------------------
(* Claims about the two feature vectors, under SpecBuild *)

Record == req.body[1]

Names(frame) == [k \in DOMAIN frame |-> frame[k].name]

\* the frame holds the list's names in the list's order, and only numbers
Total(frame, columns) ==
    /\ Names(frame) = columns
    /\ \A k \in DOMAIN frame : frame[k].value.kind = "num"

\* C6: feature-vector totality.  The frame handed to either scaler holds
\* exactly the family's feature names, in order, and no null or NaN.
C6_Totality ==
    /\ pc \in {"clf", "scaled"} => Total(X_reg, features.reg)
    /\ pc = "scaled" => Total(X_clf, features.clf)

\* the value the four rules give a regression feature name, first match wins
ByRules(name) ==
    IF name \in RawFields /\ Record[name] # None THEN Verbatim(name, Record)
    ELSE IF name \in EngineeredNames THEN Derived(name, loc)
    ELSE IF name = "log_revenue" THEN Log1p(Median(df["revenue"]))
    ELSE IF name \in DOMAIN df THEN Median(df[name])
    ELSE Num(0)

\* C7: resolution order of the regression vector.  Every name of the list
\* gets the value of the first rule that matches it (raw value, engineered
\* value, column median, zero), and no iteration of the loop fails.
C7_ResolutionOrder ==
    /\ \A n \in DOMAIN X_reg_dict : X_reg_dict[n] = ByRules(n)
    /\ pc \in {"clf", "scaled"} =>
          /\ Names(X_reg) = features.reg
          /\ \A k \in DOMAIN X_reg : X_reg[k].value = ByRules(X_reg[k].name)
    /\ pc = "failed" => (i = 0 /\ DOMAIN X_reg_dict = {})

\* C7 witness: a finished regression frame in which each of the four rules
\* resolved some name
C7_Witness ==
    /\ pc = "scaled"
    /\ \E a, b, c, d \in DOMAIN X_reg_dict :
          /\ HasRaw(a, Record)
          /\ ~HasRaw(b, Record) /\ b \in EngineeredNames /\ b \in DOMAIN df
          /\ X_reg_dict[b] # Median(df[b])
          /\ ~HasRaw(c, Record) /\ c \notin EngineeredNames /\ c \in DOMAIN df
          /\ ~HasRaw(d, Record) /\ d \notin EngineeredNames /\ d \notin DOMAIN df
          /\ X_reg_dict[d] = Num(0)

ZeroFields == {"runtime", "cast_count", "release_month", "vote_average", "vote_count"}

\* C8: an explicit zero is not absence.  Each of runtime, cast_count,
\* release_month, vote_average and vote_count enters the derived computation
\* with the value supplied, zero included; the default is used only for null.
C8_ExplicitZeroKept ==
    pc # "start" =>
        \A f \in ZeroFields : ~IsNone(Record[f]) => loc[f] = Val(Record[f])

\* C9: the classification vector follows the same policy.  Every engineered
\* name of the classification list carries the value derived from the record.
C9_ClfEngineered ==
    pc = "scaled" =>
        \A k \in DOMAIN X_clf :
            X_clf[k].name \in EngineeredNames =>
                X_clf[k].value = Derived(X_clf[k].name, loc)

\* C10: cross-family consistency.  A name of both lists has the same value in
\* both vectors, and the classification vector is begun only when the
\* regression vector is complete and has gone to its scaler.
C10_CrossFamily ==
    /\ \A n \in (DOMAIN X_clf_dict) \cap (DOMAIN X_reg_dict) :
          X_clf_dict[n] = X_reg_dict[n]
    /\ pc = "scaled" =>
          \A j \in DOMAIN X_reg, k \in DOMAIN X_clf :
              X_reg[j].name = X_clf[k].name => X_clf[k].value = X_reg[j].value
    /\ (DOMAIN X_clf_dict # {} \/ X_clf # <<>>) =>
          /\ DOMAIN X_reg_dict = {features.reg[k] : k \in DOMAIN features.reg}
          /\ Names(X_reg) = features.reg

\* C10 witness: both frames built, with a shared engineered name whose reused
\* value is not what the classification loop's own fallback would give
C10_Witness ==
    /\ pc = "scaled"
    /\ \E k \in DOMAIN X_clf :
          /\ X_clf[k].name \in EngineeredNames
          /\ X_clf[k].name \in DOMAIN X_reg_dict
          /\ X_clf[k].value # MedianOrZero(X_clf[k].name, df)

-----------------------------------------------------------------------------
(* Claims about the engineered features, under SpecBuild *)

\* the regression dictionary holds v (a whole number) under name, if it
\* holds the name at all
Holds(name, v) == name \in DOMAIN X_reg_dict => X_reg_dict[name] = Num(10 * v)

QuarterOf == <<1, 1, 1, 2, 2, 2, 3, 3, 3, 4, 4, 4>>

\* C11: temporal derived features.  For a supplied release_month m in 1..12
\* the quarter is ((m - 1) div 3) + 1 and lies in 1..4, the summer flag is 1
\* exactly for June, July and August, the holiday flag is 1 exactly for
\* November and December, the two flags are never both 1, and the release
\* year is 2024 for every record; the regression vector carries these values.
C11_TemporalFeatures ==
    pc # "start" =>
        /\ loc.release_year = 2024
        /\ Holds("release_year", 2024)
        /\ (~IsNone(Record.release_month) /\ Val(Record.release_month) \in 1..12) =>
              LET m == Val(Record.release_month)
              IN  /\ loc.release_quarter = QuarterOf[m]
                  /\ loc.release_quarter = ((m - 1) \div 3) + 1
                  /\ loc.release_quarter \in 1..4
                  /\ loc.is_summer_release = 1 <=> m \in {6, 7, 8}
                  /\ loc.is_holiday_season = 1 <=> m \in {11, 12}
                  /\ loc.is_summer_release \in {0, 1}
                  /\ loc.is_holiday_season \in {0, 1}
                  /\ loc.is_summer_release + loc.is_holiday_season <= 1
                  /\ m = 6 => /\ loc.release_quarter = 2
                              /\ loc.is_summer_release = 1
                              /\ loc.is_holiday_season = 0
                  /\ m = 12 => /\ loc.release_quarter = 4
                               /\ loc.is_summer_release = 0
                               /\ loc.is_holiday_season = 1
                  /\ Holds("release_quarter", QuarterOf[m])
                  /\ Holds("is_summer_release", IF m \in {6, 7, 8} THEN 1 ELSE 0)
                  /\ Holds("is_holiday_season", IF m \in {11, 12} THEN 1 ELSE 0)

\* C11 witness: a December release whose quarter and flags have reached the
\* regression vector
C11_Witness ==
    /\ pc = "clf"
    /\ Record.release_month = Some(12)
    /\ {"release_quarter", "is_summer_release", "is_holiday_season",
        "release_year"} \subseteq DOMAIN X_reg_dict
    /\ X_reg_dict["release_quarter"] = Num(40)
    /\ X_reg_dict["is_holiday_season"] = Num(10)

\* C12: genre derived features.  genre_count is the length of the genres list
\* when it is non-empty and 1 when it is empty or null; is_multi_genre is 1
\* exactly when genre_count exceeds 1.
C12_GenreFeatures ==
    pc # "start" =>
        LET n == IF IsNone(Record.genres) THEN 0 ELSE Len(Val(Record.genres))
        IN  /\ n > 0 => loc.genre_count = n
            /\ n = 0 => loc.genre_count = 1
            /\ loc.is_multi_genre = 1 <=> loc.genre_count > 1
            /\ loc.is_multi_genre \in {0, 1}
            /\ n = 2 => loc.genre_count = 2 /\ loc.is_multi_genre = 1
            /\ n <= 1 => loc.genre_count = 1 /\ loc.is_multi_genre = 0
            /\ Holds("genre_count", IF n > 0 THEN n ELSE 1)
            /\ Holds("is_multi_genre", IF n > 1 THEN 1 ELSE 0)

\* C12 witness: an empty genres list counted as one genre in the vector
C12_Witness ==
    /\ pc = "clf"
    /\ Record.genres = Some(<<>>)
    /\ "genre_count" \in DOMAIN X_reg_dict
    /\ X_reg_dict["genre_count"] = Num(10)
    /\ loc.is_multi_genre = 0

-----------------------------------------------------------------------------
(* Claims about the composed result, under SpecCompose *)

\* a field after its null default: the default only when the field is null
NullDefault(x, d) == IF IsNone(x) THEN d ELSE Val(x)

\* a predict request has been answered with a prediction
Answered == req.op = "predict" /\ resp.status = 200

\* the prediction of an answered predict request
Prediction == resp.predictions[1]

\* C13: plausibility correction, exact and conditional.  With budget and
\* vote_average taken after their null defaults (0 and 6.0), the returned
\* revenue is budget * (1.2 + vote_average / 10) when the model's revenue is
\* below a tenth of the budget, and the model's revenue otherwise.
C13_PlausibilityExact ==
    Answered =>
        LET budget == NullDefault(Record.budget, 0)
            vote_average == NullDefault(Record.vote_average, 60)
        IN  Prediction.predicted_revenue =
                IF 10 * est.expm1 < budget
                THEN (budget * (120 + vote_average)) \div 100
                ELSE est.expm1

\* a predict or batch-predict request has been answered with predictions
Succeeded == req.op \in {"predict", "batch-predict"} /\ resp.status = 200

\* C14: plausibility floor.  Every returned revenue is at least a tenth of
\* the record's budget (0 when the budget is null).
C14_PlausibilityFloor ==
    Succeeded =>
        \A k \in DOMAIN resp.predictions :
            10 * resp.predictions[k].predicted_revenue
                >= NullDefault(req.body[k].budget, 0)

\* C15: non-negative revenue.  Every returned revenue is at least 0, for
\* every record the schema accepts and every regression output.
C15_NonNegativeRevenue ==
    Succeeded =>
        \A k \in DOMAIN resp.predictions :
            resp.predictions[k].predicted_revenue >= 0

\* C16: strictly positive revenue.  Every returned revenue exceeds 0, the one
\* for the empty record included.
C16_PositiveRevenue ==
    Succeeded =>
        \A k \in DOMAIN resp.predictions :
            resp.predictions[k].predicted_revenue > 0

Categories == {"Flop", "Average", "Hit", "Blockbuster"}

\* C17: category closure.  Every returned prediction, of predict or of a
\* batch, carries one of the four category names, whatever class the
\* classifier gave.
C17_CategoryClosure ==
    Succeeded =>
        \A k \in DOMAIN resp.predictions :
            resp.predictions[k].category \in Categories

\* C17 witness: a class index outside 0..3 answered as Average
C17_Witness ==
    /\ Answered
    /\ est.cls = Index(7)
    /\ Prediction.category = "Average"

\* the label the lenient mapping is said to give for a class output
LenientLabel(c) ==
    IF c.numeric /\ c.v \in 0..3
    THEN <<"Flop", "Average", "Hit", "Blockbuster">>[c.v + 1]
    ELSE "Average"

\* C18: the category mapping never errors.  When no scaler or estimator
\* raises, every class output is answered with a label: the four names for
\* 0..3 and Average for anything else, a string label included.
C18_LenientMapping ==
    (req.op = "predict" /\ resp # Pending /\ est.fails = "none") =>
        /\ resp.status = 200
        /\ Prediction.category = LenientLabel(est.cls)

\* C19: confidence bounds.  Every returned confidence lies between 0 and 1,
\* whatever largest probability predict_proba gave and when it raised.
C19_ConfidenceBounds ==
    Succeeded =>
        \A k \in DOMAIN resp.predictions :
            /\ 0 <= resp.predictions[k].confidence
            /\ resp.predictions[k].confidence <= 100

\* C19 witness: a largest probability above 1 answered as confidence 1
C19_Witness ==
    /\ Answered
    /\ est.proba = Some(101)
    /\ Prediction.confidence = 100

\* C20: batch order and length.  A batch answered with 200 holds one
\* prediction per record, count is that number, and the k-th prediction is
\* the result for the k-th record; the empty batch gives the empty list.
C20_BatchOrder ==
    (req.op = "batch-predict" /\ resp.status = 200) =>
        /\ Len(resp.predictions) = Len(req.body)
        /\ resp.count = Len(req.body)
        /\ \A k \in DOMAIN req.body :
              resp.predictions[k] = PredictBody(cache, req.body[k], df, est)
        /\ req.body = <<>> => resp.predictions = <<>> /\ resp.count = 0

\* C20 witness: a batch of two records answered with two different
\* predictions
C20_Witness ==
    /\ req.op = "batch-predict"
    /\ resp.status = 200
    /\ Len(req.body) = 2
    /\ resp.count = 2
    /\ resp.predictions[1] # resp.predictions[2]

-----------------------------------------------------------------------------
(* Claims about repeated and failing requests *)

\* a predict request has been handled, with a prediction or with an error
Handled == req.op = "predict" /\ resp # Pending

\* the response a and the result b of predict agree: both fail, or both
\* succeed with equal revenue and category
SameOutcome(a, b) ==
    /\ a.status = b.status
    /\ a.status = 200 =>
          /\ a.predictions[1].predicted_revenue = b.predicted_revenue
          /\ a.predictions[1].category = b.category

\* C21: determinism.  With the artifact files and the dataset unchanged, two
\* predict requests with the same record have the same outcome; so the record
\* of a handled request, sent again as the next request, is answered as the
\* first one was.
C21_Determinism ==
    Handled => SameOutcome(resp, PredictOne(cache, Record).resp)

\* the one error response of predict
PredictionFailed == Response(500, "Prediction failed", <<>>, <<>>)

\* a transform or predict call raises on the vector built for the record r
Raising(r) == Raises(est, cache, r, df)

\* C22 as stated: inference failures propagate.  A failure of any scaler or
\* estimator call of a predict request, predict_proba included, fails the
\* request with the one response 500 "Prediction failed".
C22_FailuresPropagate ==
    (Handled /\ (Raising(Record) \/ IsNone(est.proba))) =>
        resp = PredictionFailed

\* C22 amended: a failure of transform or predict of either model family
\* fails the request with the one response 500 "Prediction failed", with no
\* prediction in it; a failure of predict_proba alone does not fail the
\* request, which is answered with confidence 0.85.
C22_FailuresPropagateAmended ==
    Handled =>
        /\ Raising(Record) => resp = PredictionFailed
        /\ (~Raising(Record) /\ est.cls.numeric /\ IsNone(est.proba)) =>
              /\ resp.status = 200
              /\ Prediction.confidence = 85

\* C22 witness: the classification scaler raised and the request failed
C22_Witness ==
    /\ Handled
    /\ est.fails = "clf_scaler"
    /\ Raising(Record)
    /\ resp = PredictionFailed

\* C23: empty-record defaults.  For the record with every field null the
\* derived features and the plausibility rule use budget 0, runtime 100,
\* cast_count 10, release_month 6, vote_average 6.0, vote_count 100 and no
\* genres, so popularity is 12, the quarter 2, the summer flag 1 and the
\* genre count 1.
C23_EmptyRecordDefaults ==
    (pc # "start" /\ Record = EmptyRecord) =>
        /\ loc.budget = 0
        /\ loc.runtime = 1000
        /\ loc.cast_count = 100
        /\ loc.release_month = 6
        /\ loc.vote_average = 60
        /\ loc.vote_count = 1000
        /\ loc.genres = <<>>
        /\ loc.release_quarter = 2
        /\ loc.is_summer_release = 1
        /\ loc.genre_count = 1
        /\ Derived("popularity", loc) = Num(120)
        /\ Holds("popularity", 12)
        /\ Holds("release_quarter", 2)
        /\ Holds("is_summer_release", 1)
        /\ Holds("genre_count", 1)
        /\ Plausible(est.expm1, loc.budget, loc.vote_average)
              = (IF est.expm1 < 0 THEN 0 ELSE est.expm1)

\* C23 witness: the empty record's popularity 12 and quarter 2 in the
\* finished regression vector
C23_Witness ==
    /\ pc = "clf"
    /\ Record = EmptyRecord
    /\ {"popularity", "release_quarter"} \subseteq DOMAIN X_reg_dict
    /\ X_reg_dict["popularity"] = Num(120)
    /\ X_reg_dict["release_quarter"] = Num(20)

\* a batch-predict request has been handled
BatchHandled == req.op = "batch-predict" /\ resp # Pending

\* what a predict request with the k-th record of the batch alone is answered
Alone(k) == PredictOne(cache, req.body[k]).resp

BatchFailed == Response(500, "Batch prediction failed", <<>>, <<>>)

\* C24 as stated: batch isolation.  Each record of a batch has the outcome a
\* predict request with that record alone has; a record that fails does not
\* keep the other records from their results.
C24_BatchIsolation ==
    BatchHandled =>
        \A k \in DOMAIN req.body :
            Alone(k).status = 200 =>
                /\ resp.status = 200
                /\ resp.predictions[k] = Alone(k)

\* C24 amended: a batch answered with 200 holds for each record the
\* prediction a predict request with that record alone gives; a batch with a
\* record whose prediction fails is answered with the one response 500
\* "Batch prediction failed", which holds no prediction of any record.
C24_BatchAllOrNothing ==
    BatchHandled =>
        /\ resp.status = 200 =>
              /\ Len(resp.predictions) = Len(req.body)
              /\ \A k \in DOMAIN req.body :
                    Alone(k).status = 200 /\ resp.predictions[k] = Alone(k)
        /\ (\E k \in DOMAIN req.body : Alone(k).status # 200) =>
              resp = BatchFailed
        /\ resp.status \in {200, 500}

\* C24 witness: a batch of a record that fails alone and a record that
\* succeeds alone, answered with the batch error
C24_Witness ==
    /\ BatchHandled
    /\ Len(req.body) = 2
    /\ Alone(1).status = 200
    /\ Alone(2).status = 500
    /\ resp = BatchFailed

-----------------------------------------------------------------------------
(* Claims about confidence and the correction's frame, under SpecCompose *)

\* C25: confidence source.  The returned confidence is the largest
\* probability, or 1.0 if that is above 1.0, when predict_proba gives a
\* vector, and the constant 0.85 when it gives none.
C25_ConfidenceSource ==
    Succeeded =>
        \A k \in DOMAIN resp.predictions :
            LET c == resp.predictions[k].confidence
            IN  /\ IsNone(est.proba) => c = 85
                /\ (~IsNone(est.proba) /\ Val(est.proba) <= 100) => c = Val(est.proba)
                /\ (~IsNone(est.proba) /\ Val(est.proba) > 100) => c = 100

\* C25 witness: predict_proba raised and the prediction carries 0.85
C25_Witness ==
    /\ Answered
    /\ IsNone(est.proba)
    /\ Prediction.confidence = 85
    /\ est.fails = "none"

\* the correction of lines 278-281 fired for the handled record
Corrected == Prediction.predicted_revenue # est.expm1

\* the template line 286-293 chooses for a category
TemplateOf(category) ==
    IF category = "Blockbuster" THEN "Strong performer"
    ELSE IF category = "Hit" THEN "Solid performer"
    ELSE IF category = "Average" THEN "Moderate performer"
    ELSE "Predicted revenue"

\* C26: correction frame.  The correction changes predicted_revenue and the
\* two texts rendered from it, which show the returned value; category and
\* confidence are those the classifier gave, the same whether or not the
\* correction fired.
C26_CorrectionFrame ==
    Answered =>
        /\ Prediction.formatted = Formatted(Prediction.predicted_revenue)
        /\ Prediction.explanation.revenue = Formatted(Prediction.predicted_revenue)
        /\ Prediction.explanation.template = TemplateOf(Prediction.category)
        /\ Prediction.category = LenientLabel(est.cls)
        /\ Prediction.confidence =
              (IF IsNone(est.proba) THEN 85
               ELSE IF Val(est.proba) > 100 THEN 100 ELSE Val(est.proba))
        /\ ~Corrected => Prediction.predicted_revenue = est.expm1

\* C26 witness: the correction fired on a Blockbuster prediction and the
\* texts show the corrected revenue
C26_Witness ==
    /\ Answered
    /\ Corrected
    /\ est.cls = Index(3)
    /\ Prediction.category = "Blockbuster"
    /\ Prediction.formatted.amount = Prediction.predicted_revenue
    /\ Prediction.formatted.amount # est.expm1

====
